---- MODULE Spec2Model ----
(***************************************************************************)
(* The gallery wall of last_gallery (app.py): the occupancy table          *)
(* (placements), the undo snapshots (placement_snapshots), the asset       *)
(* records, the tile classifier and the request handlers that mutate the   *)
(* wall.                                                                   *)
(*                                                                         *)
(* Spec     : every request handler runs to completion (one action per     *)
(*            handler), no persistence failure.                            *)
(* SpecPair : as Spec, on a diagram of two tiles and with two assets.      *)
(* SpecDeep : as Spec, on a diagram of one tile, with a deeper undo stack.  *)
(* SpecOffGrid : as Spec, on the diagram of two tiles, with requests that *)
(*            name a tile the diagram does not have.                       *)
(* SpecClassify : uploads, assignments and shuffles on every diagram of a *)
(*            few rects: the classifier on its inputs.                     *)
(* SpecFail : as Spec, on the diagram of two tiles, where a persistence     *)
(*            call of clear, clear_all, move or undo may raise.            *)
(* SpecServer : as Spec, on the diagram of two tiles, with the status     *)
(*            query and restarts of the server.                            *)
(* SpecRace : clear, move and undo of several threads, interleaved call   *)
(*            by call.                                                     *)
(* SpecHistory : the legacy history functions (push and pop of the JSON    *)
(*            file), called one after the other.                           *)
(* SpecRepair : the repair script of grid utilities on any diagram and any *)
(*            table of tiles.                                              *)
(* SpecTxn  : requests of several threads interleave statement by          *)
(*            statement; save_wall_state is a DELETE, one INSERT per item  *)
(*            and a COMMIT inside one SQLite transaction, and may fail at  *)
(*            any statement.                                               *)
(***************************************************************************)
EXTENDS Integers, Sequences, FiniteSets, TLC

(***************************************************************************)
(* Bounds of the model.                                                    *)
(***************************************************************************)
\* placement_snapshots.id is AUTOINCREMENT and never reused: the model stops
\* pushing snapshots once this many ids have been handed out.
MaxSnapshotId == 2

\* The same on the diagram of one tile, where the stack is let grow past
\* MAX_HISTORY_DEPTH.
MaxDeepSnapshotId == 6

\* The rect elements of a diagram the classifier is run on.
MaxRects == 3

(***************************************************************************)
(* Program constants and the inputs requests are drawn from.               *)
(***************************************************************************)
ADMIN_PIN == "8375"

\* The depth the legacy JSON history is trimmed to, the one capacity the
\* code configures.
MAX_HISTORY_DEPTH == 5

\* The X-Admin-Pin header / the "pin" of the JSON body: right, or wrong/absent.
Pins == {ADMIN_PIN, "none"}

\* Tile ids a request may name (the code accepts any non-empty id): the
\* tiles of grid_full_svg, and the two smallest tiles alone.
TileIds == {"X1", "X2", "S1"}

PairTileIds == {"X1", "X2"}

OneTileId == {"X1"}

\* Asset ids upload_assets can hand out (uuid4 in the code), and the first
\* of them alone.
AssetIds == {"a1", "a2"}

OneAssetId == {"a1"}

\* The asset_id of a placements row that load_wall_state filters out.
EmptyAsset == ""

\* static/grid_full.svg: whether ET.parse can read it, and the widths of its
\* rect elements in traversal order (diagram units). The file is not part of
\* the sources; this one has two smallest tiles, a rect that is no tile and
\* a small tile. pair_svg is the same without the small tile.
grid_full_svg == [ok |-> TRUE, rects |-> <<85, 30, 85, 170>>]

pair_svg == [ok |-> TRUE, rects |-> <<85, 30, 85>>]

\* The widths of the rects of the diagrams the classifier is run on, and
\* these diagrams: a file that cannot be parsed, and every sequence of at
\* most MaxRects rects.
Widths == {30, 40, 85, 90, 170, 600}

Diagrams ==
    {[ok |-> FALSE, rects |-> <<>>]}
        \cup {[ok |-> TRUE, rects |-> r] : r \in UNION {[1..n -> Widths] : n \in 0..MaxRects}}

\* A diagram of one smallest tile.
single_svg == [ok |-> TRUE, rects |-> <<85>>]

(***************************************************************************)
(* Python dicts are functions with a finite domain.                        *)
(***************************************************************************)
EmptyDict == [t \in {} |-> EmptyAsset]

DictSet(d, k, v) == [x \in DOMAIN d \cup {k} |-> IF x = k THEN v ELSE d[x]]

DictDel(d, k) == [x \in DOMAIN d \ {k} |-> d[x]]

\* list(d.values()) / d.items(): dicts iterate in one fixed order; the order
\* chosen here is the one CHOOSE fixes.
RECURSIVE DictItems(_)
DictItems(d) ==
    IF DOMAIN d = {} THEN <<>>
    ELSE LET k == CHOOSE x \in DOMAIN d : TRUE
         IN  <<[tile_id |-> k, asset_id |-> d[k]]>> \o DictItems(DictDel(d, k))

DictValues(d) ==
    LET items == DictItems(d) IN [i \in 1..Len(items) |-> items[i].asset_id]


(***************************************************************************)
(* State.                                                                  *)
(***************************************************************************)
VARIABLES
    placements,           \* table placements: rows (tile_id, asset_id), committed
    placement_snapshots,  \* table placement_snapshots: rows (id, state_json)
    snapshot_seq,         \* sqlite_sequence of placement_snapshots (AUTOINCREMENT)
    assets,               \* table assets: the asset ids that have a record
    svg,                  \* static/grid_full.svg
    wall_state_history_json,  \* data/wall_state_history.json, the legacy history
    tiles_table,          \* table tiles of the base schema: rows (tile_id, asset_id)
    last,                 \* the response of the request that finished last
    prev,                 \* history: occupancy and undo depth before that request,
                          \* and the tiles the classifier returned last
    txn,                  \* the open write transaction on placements, if any
    req                   \* per thread: the request it is serving and its locals

db == <<placements, placement_snapshots, snapshot_seq>>

vars == <<placements, placement_snapshots, snapshot_seq, assets, svg,
          wall_state_history_json, tiles_table, last, prev, txn, req>>

(***************************************************************************)
(* _parse_svg_tiles: the tile universe of a diagram.                       *)
(***************************************************************************)
DESIGN_XS == 85

RECURSIVE SumSeq(_)
SumSeq(s) == IF s = <<>> THEN 0 ELSE Head(s) + SumSeq(Tail(s))

\* Faulty variant of IsXsCandidate: the lower limit is 30.
IsXsCandidate_From30(w) == 30 <= w /\ w <= 90

IsXsCandidate(w) == 40 <= w /\ w <= 90

\* Faulty variant of classify: the upper limit of xlg is inclusive.
classify_Upto600(num, den) ==
    IF num >= 60 * den /\ num < 128 * den THEN "xs"
    ELSE IF num >= 128 * den /\ num < 213 * den THEN "s"
    ELSE IF num >= 213 * den /\ num < 298 * den THEN "m"
    ELSE IF num >= 298 * den /\ num < 425 * den THEN "lg"
    ELSE IF num >= 425 * den /\ num <= 600 * den THEN "xlg"
    ELSE "unknown"

\* classify(design_width) with design_width = width / scale and
\* scale = (sum / n) / DESIGN_XS, i.e. design_width = num / den for
\* num = width * DESIGN_XS * n and den = sum (den > 0).
classify(num, den) ==
    IF num >= 60 * den /\ num < 128 * den THEN "xs"
    ELSE IF num >= 128 * den /\ num < 213 * den THEN "s"
    ELSE IF num >= 213 * den /\ num < 298 * den THEN "m"
    ELSE IF num >= 298 * den /\ num < 425 * den THEN "lg"
    ELSE IF num >= 425 * den /\ num < 600 * den THEN "xlg"
    ELSE "unknown"

prefix == [xs |-> "X", s |-> "S", m |-> "M", lg |-> "L", xlg |-> "XL", unknown |-> "U"]

SizeClasses == {"xs", "s", "m", "lg", "xlg", "unknown"}

\* Faulty variant of AssignIds: the "continue" on unknown rects is left out.
RECURSIVE AssignIds_KeepsUnknown(_, _)
AssignIds_KeepsUnknown(sizes, counters) ==
    IF sizes = <<>> THEN <<>>
    ELSE LET size == Head(sizes)
             c == counters[size] + 1
         IN  <<[id |-> prefix[size] \o ToString(c), size |-> size]>>
                 \o AssignIds_KeepsUnknown(Tail(sizes), [counters EXCEPT ![size] = c])

\* Faulty variant of AssignIds: an unknown rect takes one ordinal of every
\* class instead of none.
RECURSIVE AssignIds_UnknownCounts(_, _)
AssignIds_UnknownCounts(sizes, counters) ==
    IF sizes = <<>> THEN <<>>
    ELSE LET size == Head(sizes) IN
         IF size = "unknown"
         THEN AssignIds_UnknownCounts(Tail(sizes), [c \in DOMAIN counters |-> counters[c] + 1])
         ELSE LET c == counters[size] + 1 IN
              <<[id |-> prefix[size] \o ToString(c), size |-> size]>>
                  \o AssignIds_UnknownCounts(Tail(sizes), [counters EXCEPT ![size] = c])

\* Faulty variant of AssignIds: counters[size] += 1 is left out.
RECURSIVE AssignIds_NoIncrement(_, _)
AssignIds_NoIncrement(sizes, counters) ==
    IF sizes = <<>> THEN <<>>
    ELSE LET size == Head(sizes) IN
         IF size = "unknown" THEN AssignIds_NoIncrement(Tail(sizes), counters)
         ELSE <<[id |-> prefix[size] \o ToString(counters[size] + 1), size |-> size]>>
                  \o AssignIds_NoIncrement(Tail(sizes), counters)

\* The "Assign IDs" loop: one counter per size class, unknown rects skipped.
RECURSIVE AssignIds(_, _)
AssignIds(sizes, counters) ==
    IF sizes = <<>> THEN <<>>
    ELSE LET size == Head(sizes) IN
         IF size = "unknown" THEN AssignIds(Tail(sizes), counters)
         ELSE LET c == counters[size] + 1 IN
              <<[id |-> prefix[size] \o ToString(c), size |-> size]>>
                  \o AssignIds(Tail(sizes), [counters EXCEPT ![size] = c])

\* Faulty variant of _parse_svg_tiles: the id counters do not start at 0 but at
\* the number of placed tiles, so that the ids depend on the occupancy.
_parse_svg_tiles_CountsPlacements(diagram) ==
    IF ~diagram.ok THEN <<>>
    ELSE LET rects == diagram.rects
             xs_candidates == SelectSeq(rects, IsXsCandidate)
         IN  IF rects = <<>> THEN <<>>
             ELSE IF xs_candidates = <<>> THEN <<>>
             ELSE LET sum == SumSeq(xs_candidates)
                      n   == Len(xs_candidates)
                      sizes == [i \in 1..Len(rects) |->
                                   classify(rects[i] * DESIGN_XS * n, sum)]
                  IN  AssignIds(sizes, [c \in SizeClasses |-> Cardinality(placements)])

_parse_svg_tiles(diagram) ==
    IF ~diagram.ok THEN <<>>
    ELSE LET rects == diagram.rects
             xs_candidates == SelectSeq(rects, IsXsCandidate)
         IN  IF rects = <<>> THEN <<>>
             ELSE IF xs_candidates = <<>> THEN <<>>
             ELSE LET sum == SumSeq(xs_candidates)
                      n   == Len(xs_candidates)
                      sizes == [i \in 1..Len(rects) |->
                                   classify(rects[i] * DESIGN_XS * n, sum)]
                  IN  AssignIds(sizes, [c \in SizeClasses |-> 0])

(***************************************************************************)
(* json.dumps / json.loads of a wall state: a JSON object is the set of    *)
(* its members.                                                            *)
(***************************************************************************)
json_dumps(state) == {<<k, state[k]>> : k \in DOMAIN state}

json_loads(state_json) ==
    [k \in {m[1] : m \in state_json} |-> (CHOOSE m \in state_json : m[1] = k)[2]]

(***************************************************************************)
(* The placements table: tile_id is the PRIMARY KEY.                       *)
(***************************************************************************)
InsertOrReplace(rows, tile_id, asset_id) ==
    {r \in rows : r.tile_id # tile_id}
        \cup {[tile_id |-> tile_id, asset_id |-> asset_id]}

RECURSIVE InsertItems(_, _)
InsertItems(rows, items) ==
    IF items = <<>> THEN rows
    ELSE InsertItems(InsertOrReplace(rows, Head(items).tile_id, Head(items).asset_id),
                     Tail(items))

\* SELECT tile_id, asset_id FROM placements WHERE asset_id IS NOT NULL AND
\* asset_id != '', as a dict.
SelectPlacements(rows) ==
    LET kept == {r \in rows : r.asset_id # EmptyAsset}
    IN  [t \in {r.tile_id : r \in kept} |->
            (CHOOSE r \in kept : r.tile_id = t).asset_id]

load_wall_state == SelectPlacements(placements)

\* Faulty variant of DeleteAll: the DELETE is left out.
DeleteAll_Skipped(rows) == rows

\* DELETE FROM placements
DeleteAll(rows) == {}

\* save_wall_state run to its COMMIT: DELETE FROM placements, then one
\* INSERT OR REPLACE per item. The value is the table after the commit.
save_wall_state(state_dict) ==
    InsertItems(DeleteAll(placements), DictItems(state_dict))

(***************************************************************************)
(* The undo stack: placement_snapshots.                                    *)
(***************************************************************************)
SnapshotCount == Cardinality(placement_snapshots)

\* How many snapshot ids the model hands out on the diagram at hand.
SnapshotIdLimit ==
    IF svg = single_svg THEN MaxDeepSnapshotId ELSE MaxSnapshotId

\* push_snapshot: INSERT one row with the next AUTOINCREMENT id. The columns
\* created_at and action are written and never read by a decision of the
\* code (undo echoes action in its response): the rows leave them out.
push_snapshot(state) ==
    /\ placement_snapshots' = placement_snapshots \cup
           {[id |-> snapshot_seq + 1, state_json |-> json_dumps(state)]}
    /\ snapshot_seq' = snapshot_seq + 1

\* Faulty variant of LatestSnapshot: ORDER BY id ASC, the oldest row.
LatestSnapshot_Oldest ==
    CHOOSE r \in placement_snapshots : \A q \in placement_snapshots : q.id >= r.id

\* SELECT ... ORDER BY id DESC LIMIT 1
LatestSnapshot ==
    CHOOSE r \in placement_snapshots : \A q \in placement_snapshots : q.id <= r.id

\* pop_latest_snapshot on a non-empty table: DELETE the row selected.
pop_latest_snapshot ==
    /\ placement_snapshots' = {r \in placement_snapshots : r.id # LatestSnapshot.id}
    /\ UNCHANGED snapshot_seq

(***************************************************************************)
(* Responses and the history variable.                                     *)
(***************************************************************************)
\* tiles: what the classifier returned the last time a request ran it.
RespondWith(op, code, ok, msg, tiles) ==
    /\ last' = [op |-> op, code |-> code, ok |-> ok, msg |-> msg]
    /\ prev' = [wall |-> load_wall_state, depth |-> SnapshotCount, tiles |-> tiles]

Respond(op, code, ok, msg) == RespondWith(op, code, ok, msg, prev.tiles)

\* No write transaction is open. While one is open: owner is the thread whose
\* connection holds it, rows is the table as that connection sees it, and old
\* and new (history) are the mapping stored when it began and the mapping
\* being saved.
NoTxn == [owner |-> "none", rows |-> {}, old |-> EmptyDict, new |-> EmptyDict]

(***************************************************************************)
(* Request handlers, each run to completion.                               *)
(***************************************************************************)
Idle == UNCHANGED <<txn, req>>

\* uuid.uuid4(): an id no asset has yet. The ids are interchangeable, so the
\* model hands them out in one order.
FreshAssetId ==
    IF "a1" \notin assets THEN "a1" ELSE "a2"

\* POST /api/upload_assets: a new asset record under a fresh uuid.
upload_assets(has_files, uuid) ==
    /\ IF ~has_files
       THEN /\ Respond("upload_assets", 400, FALSE, "Missing required files")
            /\ UNCHANGED assets
       ELSE /\ uuid \notin assets
            /\ uuid = FreshAssetId
            /\ assets' = assets \cup {uuid}
            /\ Respond("upload_assets", 200, TRUE, "")
    /\ UNCHANGED <<db, svg, tiles_table, wall_state_history_json>>
    /\ Idle

\* Faulty variant of assign_tile: the "asset not found" return is left out.
assign_tile_NoAssetCheck(tile_id, asset_id) ==
    /\ IF tile_id = "" \/ asset_id = ""
       THEN /\ Respond("assign_tile", 400, FALSE, "Missing tile_id or asset_id")
            /\ UNCHANGED db
       ELSE LET wall_state == load_wall_state IN
            /\ placements' = save_wall_state(DictSet(wall_state, tile_id, asset_id))
            /\ Respond("assign_tile", 200, TRUE, "")
            /\ UNCHANGED <<placement_snapshots, snapshot_seq>>
    /\ UNCHANGED <<assets, svg, tiles_table, wall_state_history_json>>
    /\ Idle

\* Faulty variant of assign_tile: the key is set in an empty dict instead of
\* the stored wall state.
assign_tile_FromEmpty(tile_id, asset_id) ==
    /\ IF tile_id = "" \/ asset_id = ""
       THEN /\ Respond("assign_tile", 400, FALSE, "Missing tile_id or asset_id")
            /\ UNCHANGED db
       ELSE IF asset_id \notin assets
       THEN /\ Respond("assign_tile", 404, FALSE, "Asset not found")
            /\ UNCHANGED db
       ELSE LET wall_state == EmptyDict IN
            /\ placements' = save_wall_state(DictSet(wall_state, tile_id, asset_id))
            /\ Respond("assign_tile", 200, TRUE, "")
            /\ UNCHANGED <<placement_snapshots, snapshot_seq>>
    /\ UNCHANGED <<assets, svg, tiles_table, wall_state_history_json>>
    /\ Idle

\* POST /api/assign_tile
assign_tile(tile_id, asset_id) ==
    /\ IF tile_id = "" \/ asset_id = ""
       THEN /\ Respond("assign_tile", 400, FALSE, "Missing tile_id or asset_id")
            /\ UNCHANGED db
       ELSE IF asset_id \notin assets
       THEN /\ Respond("assign_tile", 404, FALSE, "Asset not found")
            /\ UNCHANGED db
       ELSE LET wall_state == load_wall_state IN
            /\ placements' = save_wall_state(DictSet(wall_state, tile_id, asset_id))
            /\ Respond("assign_tile", 200, TRUE, "")
            /\ UNCHANGED <<placement_snapshots, snapshot_seq>>
    /\ UNCHANGED <<assets, svg, tiles_table, wall_state_history_json>>
    /\ Idle

\* Faulty variant of admin_clear_tile: the "tile already empty" return is left out.
admin_clear_tile_NoEmptyCheck(pin, tile_id) ==
    /\ IF pin # ADMIN_PIN
       THEN /\ Respond("clear_tile", 401, FALSE, "Unauthorized")
            /\ UNCHANGED db
       ELSE IF tile_id = ""
       THEN /\ Respond("clear_tile", 400, FALSE, "Missing tile_id")
            /\ UNCHANGED db
       ELSE LET wall_state == load_wall_state IN
            /\ snapshot_seq < SnapshotIdLimit
            /\ push_snapshot(wall_state)
            /\ placements' = save_wall_state(DictDel(wall_state, tile_id))
            /\ Respond("clear_tile", 200, TRUE, "")
    /\ UNCHANGED <<assets, svg, tiles_table, wall_state_history_json>>
    /\ Idle

\* POST /api/admin/clear_tile
admin_clear_tile(pin, tile_id) ==
    /\ IF pin # ADMIN_PIN
       THEN /\ Respond("clear_tile", 401, FALSE, "Unauthorized")
            /\ UNCHANGED db
       ELSE IF tile_id = ""
       THEN /\ Respond("clear_tile", 400, FALSE, "Missing tile_id")
            /\ UNCHANGED db
       ELSE LET wall_state == load_wall_state IN
            IF tile_id \notin DOMAIN wall_state
            THEN /\ Respond("clear_tile", 200, TRUE, "Tile already empty")
                 /\ UNCHANGED db
            ELSE /\ snapshot_seq < SnapshotIdLimit
                 /\ push_snapshot(wall_state)
                 /\ placements' = save_wall_state(DictDel(wall_state, tile_id))
                 /\ Respond("clear_tile", 200, TRUE, "")
    /\ UNCHANGED <<assets, svg, tiles_table, wall_state_history_json>>
    /\ Idle

\* Faulty variant of admin_clear_all_tiles: the snapshot is taken after the wipe.
admin_clear_all_tiles_PushAfter(pin) ==
    /\ IF pin # ADMIN_PIN
       THEN /\ Respond("clear_all_tiles", 401, FALSE, "Unauthorized")
            /\ UNCHANGED db
       ELSE LET wall_state == load_wall_state IN
            IF DOMAIN wall_state = {}
            THEN /\ Respond("clear_all_tiles", 200, TRUE, "Already empty")
                 /\ UNCHANGED db
            ELSE /\ snapshot_seq < SnapshotIdLimit
                 /\ push_snapshot(EmptyDict)
                 /\ placements' = save_wall_state(EmptyDict)
                 /\ Respond("clear_all_tiles", 200, TRUE, "")
    /\ UNCHANGED <<assets, svg, tiles_table, wall_state_history_json>>
    /\ Idle

\* POST /api/admin/clear_all_tiles
admin_clear_all_tiles(pin) ==
    /\ IF pin # ADMIN_PIN
       THEN /\ Respond("clear_all_tiles", 401, FALSE, "Unauthorized")
            /\ UNCHANGED db
       ELSE LET wall_state == load_wall_state IN
            IF DOMAIN wall_state = {}
            THEN /\ Respond("clear_all_tiles", 200, TRUE, "Already empty")
                 /\ UNCHANGED db
            ELSE /\ snapshot_seq < SnapshotIdLimit
                 /\ push_snapshot(wall_state)
                 /\ placements' = save_wall_state(EmptyDict)
                 /\ Respond("clear_all_tiles", 200, TRUE, "")
    /\ UNCHANGED <<assets, svg, tiles_table, wall_state_history_json>>
    /\ Idle

\* Faulty variant of admin_undo: the snapshot is merged into the current wall
\* (wall_state.update(state)) instead of replacing it.
admin_undo_Merge(pin) ==
    /\ IF pin # ADMIN_PIN
       THEN /\ Respond("undo", 401, FALSE, "Unauthorized")
            /\ UNCHANGED db
       ELSE IF placement_snapshots = {}
       THEN /\ Respond("undo", 200, FALSE, "No undo available")
            /\ UNCHANGED db
       ELSE LET row == LatestSnapshot
                state == json_loads(row.state_json)
                wall_state == load_wall_state
                merged == [t \in DOMAIN wall_state \cup DOMAIN state |->
                              IF t \in DOMAIN state THEN state[t] ELSE wall_state[t]]
            IN  /\ pop_latest_snapshot
                /\ placements' = save_wall_state(merged)
                /\ Respond("undo", 200, TRUE, "")
    /\ UNCHANGED <<assets, svg, tiles_table, wall_state_history_json>>
    /\ Idle

\* Faulty variant of admin_undo: the "snapshot_id is None" return is left out, and
\* save_wall_state(None) deletes every placement.
admin_undo_NoEmptyCheck(pin) ==
    /\ IF pin # ADMIN_PIN
       THEN /\ Respond("undo", 401, FALSE, "Unauthorized")
            /\ UNCHANGED db
       ELSE IF placement_snapshots = {}
       THEN /\ placements' = save_wall_state(EmptyDict)
            /\ Respond("undo", 200, TRUE, "")
            /\ UNCHANGED <<placement_snapshots, snapshot_seq>>
       ELSE LET row == LatestSnapshot
                state == json_loads(row.state_json)
            IN  /\ pop_latest_snapshot
                /\ placements' = save_wall_state(state)
                /\ Respond("undo", 200, TRUE, "")
    /\ UNCHANGED <<assets, svg, tiles_table, wall_state_history_json>>
    /\ Idle

\* POST /api/admin/undo
admin_undo(pin) ==
    /\ IF pin # ADMIN_PIN
       THEN /\ Respond("undo", 401, FALSE, "Unauthorized")
            /\ UNCHANGED db
       ELSE IF placement_snapshots = {}
       THEN /\ Respond("undo", 200, FALSE, "No undo available")
            /\ UNCHANGED db
       ELSE LET row == LatestSnapshot
                state == json_loads(row.state_json)
            IN  /\ pop_latest_snapshot
                /\ placements' = save_wall_state(state)
                /\ Respond("undo", 200, TRUE, "")
    /\ UNCHANGED <<assets, svg, tiles_table, wall_state_history_json>>
    /\ Idle

\* Faulty variant of admin_move_tile_asset: the "destination tile is occupied" check
\* is left out.
admin_move_tile_asset_NoDestCheck(pin, from_tile_id, to_tile_id) ==
    /\ IF pin # ADMIN_PIN
       THEN /\ Respond("move_tile_asset", 401, FALSE, "Unauthorized")
            /\ UNCHANGED db
       ELSE IF from_tile_id = "" \/ to_tile_id = ""
       THEN /\ Respond("move_tile_asset", 400, FALSE, "Missing from_tile_id or to_tile_id")
            /\ UNCHANGED db
       ELSE LET wall_state == load_wall_state IN
            IF from_tile_id \notin DOMAIN wall_state
            THEN /\ Respond("move_tile_asset", 400, FALSE, "Source tile is empty")
                 /\ UNCHANGED db
            ELSE /\ snapshot_seq < SnapshotIdLimit
                 /\ push_snapshot(wall_state)
                 /\ placements' = save_wall_state(
                        DictDel(DictSet(wall_state, to_tile_id, wall_state[from_tile_id]),
                                from_tile_id))
                 /\ Respond("move_tile_asset", 200, TRUE, "")
    /\ UNCHANGED <<assets, svg, tiles_table, wall_state_history_json>>
    /\ Idle

\* Faulty variant of admin_move_tile_asset: del wall_state[from_tile_id] is left out.
admin_move_tile_asset_KeepsSource(pin, from_tile_id, to_tile_id) ==
    /\ IF pin # ADMIN_PIN
       THEN /\ Respond("move_tile_asset", 401, FALSE, "Unauthorized")
            /\ UNCHANGED db
       ELSE IF from_tile_id = "" \/ to_tile_id = ""
       THEN /\ Respond("move_tile_asset", 400, FALSE, "Missing from_tile_id or to_tile_id")
            /\ UNCHANGED db
       ELSE LET wall_state == load_wall_state IN
            IF from_tile_id \notin DOMAIN wall_state
            THEN /\ Respond("move_tile_asset", 400, FALSE, "Source tile is empty")
                 /\ UNCHANGED db
            ELSE IF to_tile_id \in DOMAIN wall_state
            THEN /\ Respond("move_tile_asset", 400, FALSE, "Destination tile is occupied")
                 /\ UNCHANGED db
            ELSE /\ snapshot_seq < SnapshotIdLimit
                 /\ push_snapshot(wall_state)
                 /\ placements' = save_wall_state(
                        DictSet(wall_state, to_tile_id, wall_state[from_tile_id]))
                 /\ Respond("move_tile_asset", 200, TRUE, "")
    /\ UNCHANGED <<assets, svg, tiles_table, wall_state_history_json>>
    /\ Idle

\* POST /api/admin/move_tile_asset
admin_move_tile_asset(pin, from_tile_id, to_tile_id) ==
    /\ IF pin # ADMIN_PIN
       THEN /\ Respond("move_tile_asset", 401, FALSE, "Unauthorized")
            /\ UNCHANGED db
       ELSE IF from_tile_id = "" \/ to_tile_id = ""
       THEN /\ Respond("move_tile_asset", 400, FALSE, "Missing from_tile_id or to_tile_id")
            /\ UNCHANGED db
       ELSE LET wall_state == load_wall_state IN
            IF from_tile_id \notin DOMAIN wall_state
            THEN /\ Respond("move_tile_asset", 400, FALSE, "Source tile is empty")
                 /\ UNCHANGED db
            ELSE IF to_tile_id \in DOMAIN wall_state
            THEN /\ Respond("move_tile_asset", 400, FALSE, "Destination tile is occupied")
                 /\ UNCHANGED db
            ELSE /\ snapshot_seq < SnapshotIdLimit
                 /\ push_snapshot(wall_state)
                 /\ placements' = save_wall_state(
                        DictDel(DictSet(wall_state, to_tile_id, wall_state[from_tile_id]),
                                from_tile_id))
                 /\ Respond("move_tile_asset", 200, TRUE, "")
    /\ UNCHANGED <<assets, svg, tiles_table, wall_state_history_json>>
    /\ Idle

\* dict(zip(keys, values)): a later pair with the same key wins.
RECURSIVE DictZip(_, _)
DictZip(keys, values) ==
    IF keys = <<>> \/ values = <<>> THEN EmptyDict
    ELSE LET n == IF Len(keys) < Len(values) THEN Len(keys) ELSE Len(values)
         IN  DictSet(DictZip(SubSeq(keys, 1, n - 1), SubSeq(values, 1, n - 1)),
                     keys[n], values[n])

\* Faulty variant of Shuffles: every position drawn independently (random.choices),
\* so that a tile may be drawn twice.
Shuffles_WithRepeats(list) ==
    [1..Len(list) -> {list[i] : i \in 1..Len(list)}]

\* random.shuffle(all_tile_ids): any reordering of the list.
Shuffles(list) ==
    {[i \in 1..Len(list) |-> list[p[i]]] : p \in Permutations(1..Len(list))}

\* Faulty variant of shuffle_placement: the "not enough tiles" return is left out
\* and zip stops at the shorter list.
shuffle_placement_NoTilesCheck(pin) ==
    /\ IF pin # "8375"
       THEN /\ Respond("shuffle", 401, FALSE, "Unauthorized")
            /\ UNCHANGED db
       ELSE LET wall_state == load_wall_state IN
            IF DOMAIN wall_state = {}
            THEN /\ Respond("shuffle", 400, FALSE, "No artwork to shuffle")
                 /\ UNCHANGED db
            ELSE LET asset_ids == DictValues(wall_state)
                     all_tiles == _parse_svg_tiles(svg)
                 IN  \E all_tile_ids \in
                         Shuffles([i \in 1..Len(all_tiles) |-> all_tiles[i].id]) :
                       LET n == IF Len(all_tile_ids) < Len(asset_ids)
                                THEN Len(all_tile_ids) ELSE Len(asset_ids)
                           destination_tile_ids == SubSeq(all_tile_ids, 1, n)
                           new_state == DictZip(destination_tile_ids, asset_ids)
                       IN  /\ placements' = save_wall_state(new_state)
                           /\ RespondWith("shuffle", 200, TRUE, "", all_tiles)
                           /\ UNCHANGED <<placement_snapshots, snapshot_seq>>
    /\ UNCHANGED <<assets, svg, tiles_table, wall_state_history_json>>
    /\ Idle

\* POST /shuffle
shuffle_placement(pin) ==
    /\ IF pin # "8375"
       THEN /\ Respond("shuffle", 401, FALSE, "Unauthorized")
            /\ UNCHANGED db
       ELSE LET wall_state == load_wall_state IN
            IF DOMAIN wall_state = {}
            THEN /\ Respond("shuffle", 400, FALSE, "No artwork to shuffle")
                 /\ UNCHANGED db
            ELSE LET asset_ids == DictValues(wall_state)
                     all_tiles == _parse_svg_tiles(svg)
                 IN  IF all_tiles = <<>> \/ Len(all_tiles) < Len(asset_ids)
                     THEN /\ RespondWith("shuffle", 400, FALSE, "Not enough tiles available",
                                          all_tiles)
                          /\ UNCHANGED db
                     ELSE \E all_tile_ids \in
                              Shuffles([i \in 1..Len(all_tiles) |-> all_tiles[i].id]) :
                            LET destination_tile_ids ==
                                    SubSeq(all_tile_ids, 1, Len(asset_ids))
                                new_state == DictZip(destination_tile_ids, asset_ids)
                            IN  /\ placements' = save_wall_state(new_state)
                                /\ RespondWith("shuffle", 200, TRUE, "", all_tiles)
                                /\ UNCHANGED <<placement_snapshots, snapshot_seq>>
    /\ UNCHANGED <<assets, svg, tiles_table, wall_state_history_json>>
    /\ Idle

(***************************************************************************)
(* Spec: the handlers one after the other.                                 *)
(***************************************************************************)
Threads == {"t1", "t2"}

\* A thread's request: where it is in its handler (pc), the handler (op) and
\* its locals: wall_state is the mapping load_wall_state returned to it,
\* state_dict the argument of save_wall_state, todo the items the INSERT loop
\* has not reached yet, snapshot_id the id pop_latest_snapshot selected.
IdleFrame ==
    [pc |-> "idle", op |-> "", wall_state |-> EmptyDict, state_dict |-> EmptyDict,
     todo |-> <<>>, snapshot_id |-> 0]

InitOn(diagram) ==
    /\ placements = {}
    /\ placement_snapshots = {}
    /\ snapshot_seq = 0
    /\ assets = {}
    /\ svg = diagram
    /\ wall_state_history_json = <<>>
    /\ tiles_table = {}
    /\ last = [op |-> "init_db", code |-> 0, ok |-> TRUE, msg |-> ""]
    /\ prev = [wall |-> EmptyDict, depth |-> 0, tiles |-> _parse_svg_tiles(diagram)]
    /\ txn = NoTxn
    /\ req = [t \in Threads |-> IdleFrame]

\* The requests clients send, naming tiles of T (or none) and assets of A
\* (or none).
NextOn(T, A) ==
    \/ \E has_files \in BOOLEAN, uuid \in A : upload_assets(has_files, uuid)
    \/ \E tile_id \in T \cup {""}, asset_id \in A \cup {""} :
          assign_tile(tile_id, asset_id)
    \/ \E pin \in Pins, tile_id \in T \cup {""} : admin_clear_tile(pin, tile_id)
    \/ \E pin \in Pins : admin_clear_all_tiles(pin)
    \/ \E pin \in Pins : admin_undo(pin)
    \/ \E pin \in Pins, from_tile_id \in T \cup {""}, to_tile_id \in T \cup {""} :
          admin_move_tile_asset(pin, from_tile_id, to_tile_id)
    \/ \E pin \in Pins : shuffle_placement(pin)

\* Three tiles and one asset.
Init == InitOn(grid_full_svg)

Next == NextOn(TileIds, OneAssetId)

Spec == Init /\ [][Next]_vars

\* Two tiles and two assets.
InitPair == InitOn(pair_svg)

NextPair == NextOn(PairTileIds, AssetIds)

SpecPair == InitPair /\ [][NextPair]_vars

\* One tile and one asset, and a deeper undo stack.
InitDeep == InitOn(single_svg)

NextDeep == NextOn(OneTileId, OneAssetId)

SpecDeep == InitDeep /\ [][NextDeep]_vars

\* The diagram of two tiles, and requests that also name S1, a tile id the
\* diagram does not have.
InitOffGrid == InitOn(pair_svg)

NextOffGrid == NextOn(TileIds, OneAssetId)

SpecOffGrid == InitOffGrid /\ [][NextOffGrid]_vars

(***************************************************************************)
(* SpecServer: the handlers, the status query of the admin page and a      *)
(* restart of the server process.                                          *)
(***************************************************************************)
\* load_history / save_history of data/wall_state_history.json, the legacy
\* history: save_history is called by push_history_snapshot and
\* pop_history_snapshot only, which no route calls. The file is absent after
\* a fresh install, and load_history then gives [].
load_history == wall_state_history_json

save_history(history) == wall_state_history_json' = history

\* GET /api/admin/history_status. The response has no "ok" and no message:
\* ok stands for can_undo and msg for history_count.
admin_history_status(pin) ==
    /\ IF pin # ADMIN_PIN
       THEN Respond("history_status", 401, FALSE, "Unauthorized")
       ELSE LET history == load_history
                history_count == Len(history)
            IN  Respond("history_status", 200, history_count > 0, ToString(history_count))
    /\ UNCHANGED <<db, assets, svg, tiles_table, wall_state_history_json>>
    /\ Idle

\* The server process ends and app.run starts it again: the module keeps no
\* wall or undo state in memory, the database and the files stay.
restart ==
    /\ Respond("restart", 0, TRUE, "")
    /\ UNCHANGED <<db, assets, svg, tiles_table, wall_state_history_json>>
    /\ Idle

InitServer == InitOn(pair_svg)

NextServer ==
    \/ NextOn(PairTileIds, OneAssetId)
    \/ \E pin \in Pins : admin_history_status(pin)
    \/ restart

SpecServer == InitServer /\ [][NextServer]_vars

\* Any diagram; uploads, assignments to X1 and X2 and shuffles, which run the
\* classifier on the diagram.
InitClassify == \E diagram \in Diagrams : InitOn(diagram)

NextClassify ==
    \/ \E has_files \in BOOLEAN, uuid \in OneAssetId : upload_assets(has_files, uuid)
    \/ \E tile_id \in PairTileIds, asset_id \in OneAssetId : assign_tile(tile_id, asset_id)
    \/ \E pin \in Pins : shuffle_placement(pin)

SpecClassify == InitClassify /\ [][NextClassify]_vars

(***************************************************************************)
(* SpecFail: the handlers that push or pop a snapshot, with a persistence  *)
(* call that raises. push_snapshot, pop_latest_snapshot and save_wall_state *)
(* each work on a connection of their own and commit on their own: what a  *)
(* call committed stays when a later call raises; the call that raises     *)
(* rolls back (its connection is dropped uncommitted). The exception       *)
(* leaves the handler and the server answers 500.                          *)
(***************************************************************************)
\* The persistence calls of a handler that pushes, and of admin_undo.
PushCalls == {"push_snapshot", "save_wall_state"}

PopCalls == {"pop_latest_snapshot", "save_wall_state"}

RespondError(op) == Respond(op, 500, FALSE, "Internal Server Error")

\* admin_clear_tile on an occupied tile, the call named by at raises.
admin_clear_tile_raises(tile_id, at) ==
    /\ LET wall_state == load_wall_state IN
          /\ tile_id \in DOMAIN wall_state
          /\ IF at = "push_snapshot"
             THEN UNCHANGED db
             ELSE /\ snapshot_seq < SnapshotIdLimit
                  /\ push_snapshot(wall_state)
                  /\ UNCHANGED placements
    /\ RespondError("clear_tile")
    /\ UNCHANGED <<assets, svg, tiles_table, wall_state_history_json>>
    /\ Idle

\* admin_clear_all_tiles on a non-empty wall, the call named by at raises.
admin_clear_all_tiles_raises(at) ==
    /\ LET wall_state == load_wall_state IN
          /\ DOMAIN wall_state # {}
          /\ IF at = "push_snapshot"
             THEN UNCHANGED db
             ELSE /\ snapshot_seq < SnapshotIdLimit
                  /\ push_snapshot(wall_state)
                  /\ UNCHANGED placements
    /\ RespondError("clear_all_tiles")
    /\ UNCHANGED <<assets, svg, tiles_table, wall_state_history_json>>
    /\ Idle

\* admin_move_tile_asset from an occupied to a free tile, the call named by
\* at raises.
admin_move_tile_asset_raises(from_tile_id, to_tile_id, at) ==
    /\ LET wall_state == load_wall_state IN
          /\ from_tile_id \in DOMAIN wall_state
          /\ to_tile_id \notin DOMAIN wall_state
          /\ IF at = "push_snapshot"
             THEN UNCHANGED db
             ELSE /\ snapshot_seq < SnapshotIdLimit
                  /\ push_snapshot(wall_state)
                  /\ UNCHANGED placements
    /\ RespondError("move_tile_asset")
    /\ UNCHANGED <<assets, svg, tiles_table, wall_state_history_json>>
    /\ Idle

\* admin_undo on a non-empty stack, the call named by at raises.
admin_undo_raises(at) ==
    /\ placement_snapshots # {}
    /\ IF at = "pop_latest_snapshot"
       THEN UNCHANGED db
       ELSE /\ pop_latest_snapshot
            /\ UNCHANGED placements
    /\ RespondError("undo")
    /\ UNCHANGED <<assets, svg, tiles_table, wall_state_history_json>>
    /\ Idle

InitFail == InitOn(pair_svg)

NextFail ==
    \/ NextOn(PairTileIds, OneAssetId)
    \/ \E tile_id \in PairTileIds, at \in PushCalls : admin_clear_tile_raises(tile_id, at)
    \/ \E at \in PushCalls : admin_clear_all_tiles_raises(at)
    \/ \E from_tile_id \in PairTileIds, to_tile_id \in PairTileIds, at \in PushCalls :
          admin_move_tile_asset_raises(from_tile_id, to_tile_id, at)
    \/ \E at \in PopCalls : admin_undo_raises(at)

SpecFail == InitFail /\ [][NextFail]_vars

(***************************************************************************)
(* SpecTxn: the handlers statement by statement, on the threads of the     *)
(* server. Every connection is private to one call; sqlite3 opens a        *)
(* transaction before the first DELETE/INSERT of a connection and the      *)
(* other connections read the committed table until conn.commit().         *)
(***************************************************************************)
Seq1 == UNCHANGED <<assets, svg, tiles_table, wall_state_history_json, prev>>

RespondTxn(op, code, ok, msg) ==
    last' = [op |-> op, code |-> code, ok |-> ok, msg |-> msg]

\* GET /api/wall_state: one SELECT of load_wall_state, on a connection of
\* its own; the mapping read is load_wall_state of the state it is taken in.
get_wall_state(t) ==
    /\ req[t].pc = "idle"
    /\ RespondTxn("wall_state", 200, TRUE,
                  IF txn.owner = "none" THEN "" ELSE "read during a save")
    /\ UNCHANGED <<db, txn, req>>
    /\ Seq1

\* assign_tile up to its call of save_wall_state (valid tile and asset).
assign_tile_load(t, tile_id, asset_id) ==
    /\ req[t].pc = "idle"
    /\ asset_id \in assets
    /\ req' = [req EXCEPT ![t] =
                  [pc |-> "delete", op |-> "assign_tile",
                   wall_state |-> load_wall_state,
                   state_dict |-> DictSet(load_wall_state, tile_id, asset_id),
                   todo |-> <<>>, snapshot_id |-> 0]]
    /\ UNCHANGED <<db, txn, last>>
    /\ Seq1

\* Faulty variant of save_delete: the connection is in autocommit mode, the DELETE
\* reaches the committed table at once.
save_delete_Autocommit(t) ==
    /\ req[t].pc = "delete"
    /\ txn.owner = "none"
    /\ txn' = [owner |-> t, rows |-> DeleteAll(placements), old |-> load_wall_state,
               new |-> req[t].state_dict]
    /\ req' = [req EXCEPT ![t].pc = "insert", ![t].todo = DictItems(req[t].state_dict)]
    /\ placements' = DeleteAll(placements)
    /\ UNCHANGED <<placement_snapshots, snapshot_seq, last>>
    /\ Seq1

\* save_wall_state: cursor.execute("DELETE FROM placements") opens the
\* transaction of this connection.
save_delete(t) ==
    /\ req[t].pc = "delete"
    /\ txn.owner = "none"
    /\ txn' = [owner |-> t, rows |-> DeleteAll(placements), old |-> load_wall_state,
               new |-> req[t].state_dict]
    /\ req' = [req EXCEPT ![t].pc = "insert", ![t].todo = DictItems(req[t].state_dict)]
    /\ UNCHANGED <<db, last>>
    /\ Seq1

\* save_wall_state: one INSERT OR REPLACE of the loop.
save_insert(t) ==
    /\ req[t].pc = "insert"
    /\ txn.owner = t
    /\ req[t].todo # <<>>
    /\ txn' = [txn EXCEPT !.rows =
                  InsertOrReplace(txn.rows, Head(req[t].todo).tile_id,
                                  Head(req[t].todo).asset_id)]
    /\ req' = [req EXCEPT ![t].todo = Tail(req[t].todo)]
    /\ UNCHANGED <<db, last>>
    /\ Seq1

\* save_wall_state: conn.commit(), and the handler's response.
save_commit(t) ==
    /\ req[t].pc = "insert"
    /\ txn.owner = t
    /\ req[t].todo = <<>>
    /\ placements' = txn.rows
    /\ txn' = NoTxn
    /\ req' = [req EXCEPT ![t] = IdleFrame]
    /\ RespondTxn(req[t].op, 200, TRUE, "")
    /\ UNCHANGED <<placement_snapshots, snapshot_seq>>
    /\ Seq1

\* save_wall_state: a statement raises (the write lock is not granted within
\* the timeout, or the write fails). The exception leaves the handler, the
\* connection is dropped with its transaction uncommitted: a rollback.
save_fail(t) ==
    /\ req[t].pc \in {"delete", "insert"}
    /\ txn' = IF txn.owner = t THEN NoTxn ELSE txn
    /\ req' = [req EXCEPT ![t] = IdleFrame]
    /\ RespondTxn(req[t].op, 500, FALSE, "Internal Server Error")
    /\ UNCHANGED db
    /\ Seq1

\* Every occupancy of the tiles T with the assets A (assign_tile reaches each
\* of them).
MappingsOn(T, A) ==
    UNION {[d -> A] : d \in SUBSET T}

InitTxn ==
    /\ \E M \in MappingsOn(PairTileIds, AssetIds) :
          placements = InsertItems({}, DictItems(M))
    /\ placement_snapshots = {}
    /\ snapshot_seq = 0
    /\ assets = AssetIds
    /\ svg = pair_svg
    /\ wall_state_history_json = <<>>
    /\ tiles_table = {}
    /\ last = [op |-> "init_db", code |-> 0, ok |-> TRUE, msg |-> ""]
    /\ prev = [wall |-> EmptyDict, depth |-> 0, tiles |-> _parse_svg_tiles(pair_svg)]
    /\ txn = NoTxn
    /\ req = [t \in Threads |-> IdleFrame]

NextTxn ==
    \E t \in Threads :
        \/ get_wall_state(t)
        \/ \E tile_id \in PairTileIds, asset_id \in AssetIds :
              assign_tile_load(t, tile_id, asset_id)
        \/ save_delete(t)
        \/ save_insert(t)
        \/ save_commit(t)
        \/ save_fail(t)

SpecTxn == InitTxn /\ [][NextTxn]_vars

(***************************************************************************)
(* SpecRace: clear, move and undo on the threads of the server, call by    *)
(* call: a handler reads the wall, then pushes (or pops) a snapshot, then  *)
(* saves. push_snapshot and save_wall_state are one transaction each (see  *)
(* SpecTxn); pop_latest_snapshot SELECTs outside a transaction, sqlite3    *)
(* opening one only before the DELETE.                                     *)
(***************************************************************************)
SeqRace == UNCHANGED <<assets, svg, tiles_table, wall_state_history_json, txn>>

\* admin_clear_tile up to its push_snapshot (valid pin, occupied tile).
admin_clear_tile_load(t, tile_id) ==
    /\ req[t].pc = "idle"
    /\ LET wall_state == load_wall_state IN
          /\ tile_id \in DOMAIN wall_state
          /\ req' = [req EXCEPT ![t] =
                        [pc |-> "push", op |-> "clear_tile", wall_state |-> wall_state,
                         state_dict |-> DictDel(wall_state, tile_id),
                         todo |-> <<>>, snapshot_id |-> 0]]
    /\ UNCHANGED <<db, last, prev>>
    /\ SeqRace

\* admin_move_tile_asset up to its push_snapshot (valid pin, occupied source,
\* free destination).
admin_move_tile_asset_load(t, from_tile_id, to_tile_id) ==
    /\ req[t].pc = "idle"
    /\ LET wall_state == load_wall_state IN
          /\ from_tile_id \in DOMAIN wall_state
          /\ to_tile_id \notin DOMAIN wall_state
          /\ req' = [req EXCEPT ![t] =
                        [pc |-> "push", op |-> "move_tile_asset", wall_state |-> wall_state,
                         state_dict |->
                             DictDel(DictSet(wall_state, to_tile_id, wall_state[from_tile_id]),
                                     from_tile_id),
                         todo |-> <<>>, snapshot_id |-> 0]]
    /\ UNCHANGED <<db, last, prev>>
    /\ SeqRace

\* push_snapshot(action, wall_state) of the handler.
call_push_snapshot(t) ==
    /\ req[t].pc = "push"
    /\ snapshot_seq < SnapshotIdLimit
    /\ push_snapshot(req[t].wall_state)
    /\ req' = [req EXCEPT ![t].pc = "save"]
    /\ UNCHANGED <<placements, last, prev>>
    /\ SeqRace

\* admin_undo, pop_latest_snapshot up to its SELECT: the latest row, or the
\* "No undo available" response.
admin_undo_select(t) ==
    /\ req[t].pc = "idle"
    /\ IF placement_snapshots = {}
       THEN /\ Respond("undo", 200, FALSE, "No undo available")
            /\ UNCHANGED req
       ELSE LET row == LatestSnapshot IN
            /\ req' = [req EXCEPT ![t] =
                          [pc |-> "delete", op |-> "undo", wall_state |-> EmptyDict,
                           state_dict |-> json_loads(row.state_json),
                           todo |-> <<>>, snapshot_id |-> row.id]]
            /\ UNCHANGED <<last, prev>>
    /\ UNCHANGED db
    /\ SeqRace

\* pop_latest_snapshot: DELETE FROM placement_snapshots WHERE id = ?, commit.
admin_undo_delete(t) ==
    /\ req[t].pc = "delete"
    /\ placement_snapshots' =
           {r \in placement_snapshots : r.id # req[t].snapshot_id}
    /\ req' = [req EXCEPT ![t].pc = "save"]
    /\ UNCHANGED <<placements, snapshot_seq, last, prev>>
    /\ SeqRace

\* Faulty variant of call_save_wall_state: a clear or a move whose wall has
\* changed since it was read is dropped (first write wins).
call_save_wall_state_IfUnchanged(t) ==
    /\ req[t].pc = "save"
    /\ placements' =
           IF req[t].op # "undo" /\ load_wall_state # req[t].wall_state
           THEN placements
           ELSE save_wall_state(req[t].state_dict)
    /\ Respond(req[t].op, 200, TRUE, "")
    /\ req' = [req EXCEPT ![t] = IdleFrame]
    /\ UNCHANGED <<placement_snapshots, snapshot_seq>>
    /\ SeqRace

\* save_wall_state(...) of the handler, and its response.
call_save_wall_state(t) ==
    /\ req[t].pc = "save"
    /\ placements' = save_wall_state(req[t].state_dict)
    /\ Respond(req[t].op, 200, TRUE, "")
    /\ req' = [req EXCEPT ![t] = IdleFrame]
    /\ UNCHANGED <<placement_snapshots, snapshot_seq>>
    /\ SeqRace

\* A wall of two tiles at most, of the two assets; S1 is free.
InitRace ==
    /\ \E M \in MappingsOn(PairTileIds, AssetIds) :
          placements = InsertItems({}, DictItems(M))
    /\ placement_snapshots = {}
    /\ snapshot_seq = 0
    /\ assets = AssetIds
    /\ svg = grid_full_svg
    /\ wall_state_history_json = <<>>
    /\ tiles_table = {}
    /\ last = [op |-> "init_db", code |-> 0, ok |-> TRUE, msg |-> ""]
    /\ prev = [wall |-> EmptyDict, depth |-> 0, tiles |-> _parse_svg_tiles(grid_full_svg)]
    /\ txn = NoTxn
    /\ req = [t \in Threads |-> IdleFrame]

NextRace ==
    \E t \in Threads :
        \/ \E tile_id \in TileIds : admin_clear_tile_load(t, tile_id)
        \/ \E from_tile_id \in TileIds, to_tile_id \in TileIds :
              admin_move_tile_asset_load(t, from_tile_id, to_tile_id)
        \/ call_push_snapshot(t)
        \/ admin_undo_select(t)
        \/ admin_undo_delete(t)
        \/ call_save_wall_state(t)

SpecRace == InitRace /\ [][NextRace]_vars

(***************************************************************************)
(* SpecHistory: the legacy history functions, called one after the other   *)
(* with any wall state over X1 and X2.                                     *)
(***************************************************************************)
(***************************************************************************)
\* What a call returned: code is the history count, ok is FALSE when the
\* snapshot returned is None; prev.depth is the length of the history the
\* call loaded.
Returns(op, count, not_none, history) ==
    /\ last' = [op |-> op, code |-> count, ok |-> not_none, msg |-> ""]
    /\ prev' = [prev EXCEPT !.depth = Len(history)]

\* Faulty variant of push_history_snapshot: the trim keeps the oldest
\* snapshots (history[:MAX_HISTORY_DEPTH]).
push_history_snapshot_KeepsOldest(current_state) ==
    /\ LET history == load_history
           appended == Append(history, current_state)
           trimmed == IF Len(appended) > MAX_HISTORY_DEPTH
                      THEN SubSeq(appended, 1, MAX_HISTORY_DEPTH)
                      ELSE appended
       IN  /\ save_history(trimmed)
           /\ Returns("push_history_snapshot", Len(trimmed), TRUE, history)
    /\ UNCHANGED <<db, assets, svg, tiles_table, txn, req>>

push_history_snapshot(current_state) ==
    /\ LET history == load_history
           appended == Append(history, current_state)
           trimmed == IF Len(appended) > MAX_HISTORY_DEPTH
                      THEN SubSeq(appended, Len(appended) - MAX_HISTORY_DEPTH + 1,
                                  Len(appended))
                      ELSE appended
       IN  /\ save_history(trimmed)
           /\ Returns("push_history_snapshot", Len(trimmed), TRUE, history)
    /\ UNCHANGED <<db, assets, svg, tiles_table, txn, req>>

\* The snapshot returned goes to the caller's local state_dict.
pop_history_snapshot ==
    /\ LET history == load_history IN
          IF history = <<>>
          THEN /\ Returns("pop_history_snapshot", 0, FALSE, history)
               /\ UNCHANGED <<wall_state_history_json, req>>
          ELSE LET snapshot == history[Len(history)]
                   popped == SubSeq(history, 1, Len(history) - 1)
               IN  /\ save_history(popped)
                   /\ req' = [req EXCEPT !["t1"].state_dict = snapshot]
                   /\ Returns("pop_history_snapshot", Len(popped), TRUE, history)
    /\ UNCHANGED <<db, assets, svg, tiles_table, txn>>

InitHistory == InitOn(pair_svg)

NextHistory ==
    \/ \E current_state \in MappingsOn(PairTileIds, OneAssetId) :
          push_history_snapshot(current_state)
    \/ pop_history_snapshot

SpecHistory == InitHistory /\ [][NextHistory]_vars

(***************************************************************************)
(* SpecRepair: grid utilities/repair_tiles.py, run on any diagram and any  *)
(* contents of the table tiles.                                            *)
(***************************************************************************)
\* asset_id of a tile row without artwork.
NULL == "NULL"

\* The "Assign IDs" loop of parse_svg_tiles: ids only.
RECURSIVE repair_AssignIds(_, _)
repair_AssignIds(sizes, counters) ==
    IF sizes = <<>> THEN <<>>
    ELSE LET size == Head(sizes) IN
         IF size = "unknown" THEN repair_AssignIds(Tail(sizes), counters)
         ELSE LET count == counters[size] + 1
                  tid_prefix == [xs |-> "X", s |-> "S", m |-> "M", lg |-> "L",
                                 xlg |-> "XL", unknown |-> "U"]
                  tid == tid_prefix[size] \o ToString(count)
              IN  <<tid>> \o repair_AssignIds(Tail(sizes), [counters EXCEPT ![size] = count])

\* Faulty variant of parse_svg_tiles: the scale candidates are the rects of
\* width 60 to 90.
parse_svg_tiles_CandidatesFrom60(diagram) ==
    IF ~diagram.ok THEN <<>>
    ELSE LET rects == diagram.rects
             xs_candidates == SelectSeq(rects, LAMBDA width : 60 <= width /\ width <= 90)
         IN  IF rects = <<>> THEN <<>>
             ELSE IF xs_candidates = <<>> THEN <<>>
             ELSE LET total == SumSeq(xs_candidates)
                      count == Len(xs_candidates)
                      \* design_width = width / ((total / count) / 85.0)
                      repair_classify(width) ==
                          LET w == width * 85 * count IN
                          IF w >= 60 * total /\ w < 128 * total THEN "xs"
                          ELSE IF w >= 128 * total /\ w < 213 * total THEN "s"
                          ELSE IF w >= 213 * total /\ w < 298 * total THEN "m"
                          ELSE IF w >= 298 * total /\ w < 425 * total THEN "lg"
                          ELSE IF w >= 425 * total /\ w < 600 * total THEN "xlg"
                          ELSE "unknown"
                      sizes == [i \in 1..Len(rects) |-> repair_classify(rects[i])]
                  IN  repair_AssignIds(sizes, [xs |-> 0, s |-> 0, m |-> 0, lg |-> 0,
                                               xlg |-> 0, unknown |-> 0])

\* parse_svg_tiles of the repair script: the tile ids of a diagram.
parse_svg_tiles(diagram) ==
    IF ~diagram.ok THEN <<>>
    ELSE LET rects == diagram.rects
             xs_candidates == SelectSeq(rects, LAMBDA width : 40 <= width /\ width <= 90)
         IN  IF rects = <<>> THEN <<>>
             ELSE IF xs_candidates = <<>> THEN <<>>
             ELSE LET total == SumSeq(xs_candidates)
                      count == Len(xs_candidates)
                      \* design_width = width / ((total / count) / 85.0)
                      repair_classify(width) ==
                          LET w == width * 85 * count IN
                          IF w >= 60 * total /\ w < 128 * total THEN "xs"
                          ELSE IF w >= 128 * total /\ w < 213 * total THEN "s"
                          ELSE IF w >= 213 * total /\ w < 298 * total THEN "m"
                          ELSE IF w >= 298 * total /\ w < 425 * total THEN "lg"
                          ELSE IF w >= 425 * total /\ w < 600 * total THEN "xlg"
                          ELSE "unknown"
                      sizes == [i \in 1..Len(rects) |-> repair_classify(rects[i])]
                  IN  repair_AssignIds(sizes, [xs |-> 0, s |-> 0, m |-> 0, lg |-> 0,
                                               xlg |-> 0, unknown |-> 0])

\* What a run of the script did: code is the number of rows it inserted.
Ran(ok, inserted, msg) ==
    last' = [op |-> "repair_tiles_table", code |-> inserted, ok |-> ok, msg |-> msg]

\* Faulty variant of repair_tiles_table: every tile of the diagram is written
\* as an empty tile (INSERT OR REPLACE of all svg_tile_ids).
repair_tiles_table_ReplacesAll ==
    /\ LET svg_tile_ids == parse_svg_tiles(svg) IN
          IF svg_tile_ids = <<>>
          THEN /\ Ran(FALSE, 0, "Could not parse tiles from SVG")
               /\ UNCHANGED tiles_table
          ELSE LET ids == {svg_tile_ids[i] : i \in 1..Len(svg_tile_ids)}
               IN  /\ tiles_table' = {row \in tiles_table : row.tile_id \notin ids}
                                         \cup {[tile_id |-> tile_id, asset_id |-> NULL] :
                                                  tile_id \in ids}
                   /\ Ran(TRUE, Cardinality(ids), "")
    /\ UNCHANGED <<db, assets, svg, wall_state_history_json, prev, txn, req>>

repair_tiles_table ==
    /\ LET svg_tile_ids == parse_svg_tiles(svg) IN
          IF svg_tile_ids = <<>>
          THEN /\ Ran(FALSE, 0, "Could not parse tiles from SVG")
               /\ UNCHANGED tiles_table
          ELSE LET existing_tiles == {row.tile_id : row \in tiles_table}
                   missing_tiles == SelectSeq(svg_tile_ids,
                                              LAMBDA tid : tid \notin existing_tiles)
               IN  IF missing_tiles = <<>>
                   THEN /\ Ran(TRUE, 0, "")
                        /\ UNCHANGED tiles_table
                   ELSE IF \E i, j \in 1..Len(missing_tiles) :
                              i # j /\ missing_tiles[i] = missing_tiles[j]
                   \* the second INSERT of a tile_id (PRIMARY KEY) raises before
                   \* the commit
                   THEN /\ Ran(FALSE, 0, "IntegrityError")
                        /\ UNCHANGED tiles_table
                   ELSE /\ tiles_table' = tiles_table
                                \cup {[tile_id |-> missing_tiles[i], asset_id |-> NULL] :
                                         i \in 1..Len(missing_tiles)}
                        /\ Ran(TRUE, Len(missing_tiles), "")
    /\ UNCHANGED <<db, assets, svg, wall_state_history_json, prev, txn, req>>

\* Every table of rows for X1, X2 and S1, with artwork or without.
TileTables ==
    {{[tile_id |-> tile_id, asset_id |-> f[tile_id]] : tile_id \in DOMAIN f} :
        f \in MappingsOn(TileIds, OneAssetId \cup {NULL})}

InitRepair ==
    /\ \E diagram \in Diagrams : svg = diagram /\ prev = [wall |-> EmptyDict, depth |-> 0,
                                                          tiles |-> _parse_svg_tiles(diagram)]
    /\ tiles_table \in TileTables
    /\ placements = {}
    /\ placement_snapshots = {}
    /\ snapshot_seq = 0
    /\ assets = OneAssetId
    /\ wall_state_history_json = <<>>
    /\ last = [op |-> "init_db", code |-> 0, ok |-> TRUE, msg |-> ""]
    /\ txn = NoTxn
    /\ req = [t \in Threads |-> IdleFrame]

NextRepair == repair_tiles_table

SpecRepair == InitRepair /\ [][NextRepair]_vars

(***************************************************************************)
(* Properties.                                                             *)
(***************************************************************************)
Wall == load_wall_state

WallAfter == SelectPlacements(placements')

Depth == SnapshotCount

DepthAfter == Cardinality(placement_snapshots')

\* The request that finished last changed the wall or pushed a snapshot.
LastDid(op) == last.op = op /\ last.code = 200 /\ last.ok /\ last.msg = ""

\* C1: clear(tile) on an occupied tile, clear_all() on a non-empty wall or a
\* successful move, followed at once by undo, gives back the occupancy and
\* the undo depth the operation started from.
C1_OpThenUndoRestores ==
    [][ ( /\ \E op \in {"clear_tile", "clear_all_tiles", "move_tile_asset"} : LastDid(op)
          /\ admin_undo(ADMIN_PIN) )
        => (WallAfter = prev.wall /\ DepthAfter = prev.depth) ]_vars

\* {X1: a1} -> clear(X1) -> {} at depth 1 -> undo -> {X1: a1} at depth 0.
C1_Witness ==
    /\ LastDid("undo")
    /\ prev.wall = EmptyDict /\ prev.depth = 1
    /\ DOMAIN Wall = {"X1"} /\ Wall["X1"] = "a1"
    /\ Depth = 0

\* C2, for a sequence of one operation: any operation that changed the
\* occupancy (assign, clear, clear_all, move, shuffle), followed by an undo
\* that pops a snapshot, gives back the occupancy the operation started from.
C2_AnyOpThenUndoRestores ==
    [][ ( /\ \E op \in {"assign_tile", "clear_tile", "clear_all_tiles",
                        "move_tile_asset", "shuffle"} : LastDid(op)
          /\ Wall # prev.wall
          /\ placement_snapshots # {}
          /\ admin_undo(ADMIN_PIN) )
        => WallAfter = prev.wall ]_vars

C4_SaveLoadRoundTrip ==
    \A M \in MappingsOn(TileIds, AssetIds) :
        SelectPlacements(save_wall_state(M)) = M

\* A two-entry mapping was saved over a non-empty one and is read back.
C4_Witness ==
    /\ LastDid("assign_tile")
    /\ prev.wall # EmptyDict
    /\ Cardinality(DOMAIN Wall) = 2

\* C5: move(from, to) with from unoccupied or to occupied (from = to on an
\* occupied tile included) is rejected with an error and changes neither
\* the occupancy nor the undo stack.
C5_MoveRejected ==
    [][ \A from_tile_id \in TileIds, to_tile_id \in TileIds :
          ( /\ admin_move_tile_asset(ADMIN_PIN, from_tile_id, to_tile_id)
            /\ (from_tile_id \notin DOMAIN Wall \/ to_tile_id \in DOMAIN Wall) )
          => ( /\ last'.op = "move_tile_asset" /\ last'.code = 400 /\ ~last'.ok
               /\ UNCHANGED <<placements, placement_snapshots>> ) ]_vars

\* A move onto an occupied tile was rejected, with two tiles occupied.
C5_Witness ==
    /\ last.op = "move_tile_asset" /\ last.code = 400
    /\ last.msg = "Destination tile is occupied"
    /\ Cardinality(DOMAIN Wall) = 2
    /\ Wall = prev.wall /\ Depth = prev.depth

\* C6: a successful move(from, to) leaves to with the asset of from, from
\* absent and every other tile as before; the number of occupied tiles is
\* unchanged.
C6_MoveEffect ==
    [][ \A from_tile_id \in TileIds, to_tile_id \in TileIds :
          ( /\ admin_move_tile_asset(ADMIN_PIN, from_tile_id, to_tile_id)
            /\ from_tile_id \in DOMAIN Wall
            /\ to_tile_id \notin DOMAIN Wall )
          => ( /\ to_tile_id \in DOMAIN WallAfter
               /\ WallAfter[to_tile_id] = Wall[from_tile_id]
               /\ from_tile_id \notin DOMAIN WallAfter
               /\ \A x \in TileIds \ {from_tile_id, to_tile_id} :
                     /\ x \in DOMAIN WallAfter <=> x \in DOMAIN Wall
                     /\ x \in DOMAIN Wall => WallAfter[x] = Wall[x]
               /\ Cardinality(DOMAIN WallAfter) = Cardinality(DOMAIN Wall) ) ]_vars

\* A move has succeeded with another tile occupied.
C6_Witness ==
    /\ LastDid("move_tile_asset")
    /\ Cardinality(DOMAIN Wall) = 2
    /\ Wall # prev.wall
    /\ Depth = prev.depth + 1

\* C7: clear(tile) of an unoccupied tile changes neither the occupancy nor
\* the undo depth; clear(tile) of an occupied tile removes that entry alone
\* and raises the undo depth by one.
C7_ClearEffect ==
    [][ \A tile_id \in TileIds :
          admin_clear_tile(ADMIN_PIN, tile_id)
          => IF tile_id \notin DOMAIN Wall
             THEN WallAfter = Wall /\ DepthAfter = Depth
             ELSE WallAfter = DictDel(Wall, tile_id) /\ DepthAfter = Depth + 1 ]_vars

\* An occupied tile was cleared, another one stays occupied.
C7_Witness ==
    /\ LastDid("clear_tile")
    /\ Cardinality(DOMAIN prev.wall) = 2
    /\ Cardinality(DOMAIN Wall) = 1
    /\ Depth = prev.depth + 1

\* C8: clear_all() of an empty wall pushes no snapshot and changes nothing;
\* of a non-empty wall it pushes exactly one snapshot, equal to the
\* occupancy before, and leaves the wall empty.
C8_ClearAllEffect ==
    [][ admin_clear_all_tiles(ADMIN_PIN)
        => IF Wall = EmptyDict
           THEN UNCHANGED <<placements, placement_snapshots>>
           ELSE /\ WallAfter = EmptyDict
                /\ \E row \in placement_snapshots' \ placement_snapshots :
                      /\ placement_snapshots' = placement_snapshots \cup {row}
                      /\ json_loads(row.state_json) = Wall ]_vars

\* A wall of two occupied tiles was wiped.
C8_Witness ==
    /\ LastDid("clear_all_tiles")
    /\ Cardinality(DOMAIN prev.wall) = 2
    /\ Wall = EmptyDict
    /\ Depth = prev.depth + 1

\* How many tiles of the occupancy hold the asset.
Occurrences(wall, asset_id) ==
    Cardinality({tile_id \in DOMAIN wall : wall[tile_id] = asset_id})

\* C9: a successful shuffle() keeps the number of occupied tiles, and every
\* asset id occurs after it as many times as before.
C9_ShufflePreservesAssets ==
    [][ ( /\ last'.op = "shuffle" /\ last'.code = 200
          /\ shuffle_placement("8375") )
        => ( /\ Cardinality(DOMAIN WallAfter) = Cardinality(DOMAIN Wall)
             /\ \A asset_id \in AssetIds :
                   Occurrences(WallAfter, asset_id) = Occurrences(Wall, asset_id) ) ]_vars

\* A shuffle has exchanged two different assets.
C9_Witness ==
    /\ LastDid("shuffle")
    /\ DOMAIN Wall = {"X1", "X2"} /\ DOMAIN prev.wall = {"X1", "X2"}
    /\ Wall["X1"] # Wall["X2"]
    /\ Wall["X1"] = prev.wall["X2"] /\ Wall["X2"] = prev.wall["X1"]

\* C10: in every reachable state each tile holds at most one asset and each
\* asset id appears on at most one tile.
C10_OneAssetPerTileOneTilePerAsset ==
    /\ \A r1, r2 \in placements : r1.tile_id = r2.tile_id => r1 = r2
    /\ \A asset_id \in AssetIds : Occurrences(Wall, asset_id) <= 1

\* The operations of the mutation surface that change the occupancy.
MutatingOps == {"assign_tile", "clear_tile", "clear_all_tiles", "move_tile_asset", "shuffle"}

\* C11: every assign, clear, clear_all, move or shuffle that changes the
\* occupancy pushes, in the same operation, a snapshot equal to the
\* occupancy it read.
C11_SnapshotWithEveryChange ==
    [][ (last'.op \in MutatingOps /\ WallAfter # Wall)
        => \E row \in placement_snapshots' \ placement_snapshots :
              json_loads(row.state_json) = Wall ]_vars

\* C12: shuffle keeps its pre-shuffle snapshot on a stack of its own: the
\* undo that follows a successful shuffle gives back the occupancy the
\* shuffle started from and consumes no snapshot of the edits.
C12_ShuffleUndoneOnItsOwn ==
    [][ (LastDid("shuffle") /\ admin_undo(ADMIN_PIN))
        => (WallAfter = prev.wall /\ placement_snapshots' = placement_snapshots) ]_vars

\* C13: the undo stack of clear, clear_all, move and undo never holds more
\* snapshots than the configured capacity.
C13_UndoStackBounded ==
    Depth <= MAX_HISTORY_DEPTH

\* C14: undo on a non-empty stack removes the snapshot pushed last among
\* those that remain and no other, makes it the whole occupancy, lowers
\* the depth by one and pushes nothing.
C14_UndoIsLifo ==
    [][ (last'.op = "undo" /\ placement_snapshots # {} /\ admin_undo(ADMIN_PIN))
        => \E top \in placement_snapshots :
              /\ \A q \in placement_snapshots : q.id <= top.id
              /\ placement_snapshots' = placement_snapshots \ {top}
              /\ WallAfter = json_loads(top.state_json)
              /\ DepthAfter = Depth - 1 ]_vars

\* An undo at depth two has dropped a tile assigned after the snapshot.
C14_Witness ==
    /\ LastDid("undo")
    /\ prev.depth = 2 /\ Depth = 1
    /\ \E tile_id \in DOMAIN prev.wall : tile_id \notin DOMAIN Wall

\* C15: undo on an empty stack answers "nothing to undo" as a normal
\* response and changes neither the occupancy nor the stack.
C15_UndoOnEmptyStack ==
    [][ (placement_snapshots = {} /\ admin_undo(ADMIN_PIN))
        => ( /\ last' = [op |-> "undo", code |-> 200, ok |-> FALSE,
                         msg |-> "No undo available"]
             /\ UNCHANGED <<placements, placement_snapshots>> ) ]_vars

\* Nothing to undo, on a wall that is not empty.
C15_Witness ==
    /\ last.op = "undo" /\ last.code = 200 /\ ~last.ok
    /\ last.msg = "No undo available"
    /\ Wall # EmptyDict /\ Wall = prev.wall
    /\ Depth = 0 /\ prev.depth = 0

\* C16: an assign, clear, clear_all, move, shuffle or undo request that does
\* not carry the valid credential is rejected and changes neither the
\* occupancy nor the undo stack. (assign_tile reads no credential: every
\* assign request is one without it.)
C16_CredentialGuardsMutations ==
    [][ ( \/ \E tile_id \in TileIds, asset_id \in AssetIds : assign_tile(tile_id, asset_id)
          \/ \E tile_id \in TileIds : admin_clear_tile("none", tile_id)
          \/ admin_clear_all_tiles("none")
          \/ \E from_tile_id \in TileIds, to_tile_id \in TileIds :
                admin_move_tile_asset("none", from_tile_id, to_tile_id)
          \/ shuffle_placement("none")
          \/ admin_undo("none") )
        => ( /\ last'.code >= 400 /\ ~last'.ok
             /\ UNCHANGED <<placements, placement_snapshots>> ) ]_vars

\* The canonical tile universe: the ids _parse_svg_tiles gives the diagram.
TileUniverse ==
    LET tiles == _parse_svg_tiles(svg) IN {tiles[i].id : i \in 1..Len(tiles)}

\* C17: every key of the occupancy is a tile id of the canonical tile
\* universe.
C17_OccupiedTilesAreInUniverse ==
    DOMAIN Wall \subseteq TileUniverse

\* C18: a request with a missing tile id or asset id, and an assign that
\* names an asset without a record, is answered with an error and changes
\* neither the occupancy nor the undo depth.
C18_InvalidInputRejected ==
    [][ ( /\ last'.op \in {"assign_tile", "clear_tile", "move_tile_asset"}
          /\ \/ \E tile_id \in PairTileIds \cup {""}, asset_id \in AssetIds \cup {""} :
                   /\ tile_id = "" \/ asset_id = "" \/ asset_id \notin assets
                   /\ assign_tile(tile_id, asset_id)
             \/ admin_clear_tile(ADMIN_PIN, "")
             \/ \E from_tile_id \in PairTileIds \cup {""}, to_tile_id \in PairTileIds \cup {""} :
                   /\ from_tile_id = "" \/ to_tile_id = ""
                   /\ admin_move_tile_asset(ADMIN_PIN, from_tile_id, to_tile_id) )
        => ( /\ last'.code \in {400, 404} /\ ~last'.ok
             /\ WallAfter = Wall /\ DepthAfter = Depth ) ]_vars

\* An assign naming an asset that has no record was refused on a wall that
\* holds another asset.
C18_Witness ==
    /\ last = [op |-> "assign_tile", code |-> 404, ok |-> FALSE, msg |-> "Asset not found"]
    /\ Wall # EmptyDict /\ Wall = prev.wall
    /\ Depth = prev.depth

\* C19: a clear, clear_all, move or undo whose persistence write fails
\* leaves the occupancy and the undo stack, depth and contents, as they
\* were before the operation.
C19_FailedWriteLeavesNothing ==
    [][ last'.code = 500 => UNCHANGED <<placements, placement_snapshots>> ]_vars

\* C20: on every diagram with at least one rect of a width in [40, 90] the
\* classifier returns at least one tile, and every tile it returns has a
\* size class among xs, s, m, lg, xlg.
C20_ClassifierGivesSizedTiles ==
    (svg.ok /\ \E i \in 1..Len(svg.rects) : 40 <= svg.rects[i] /\ svg.rects[i] <= 90)
    => LET tiles == _parse_svg_tiles(svg)
       IN  /\ tiles # <<>>
           /\ \A i \in 1..Len(tiles) : tiles[i].size \in {"xs", "s", "m", "lg", "xlg"}

\* A shuffle has run the classifier on a diagram whose rects of widths 40
\* and 600 are no tiles: the asset sits on its one tile.
C20_Witness ==
    /\ LastDid("shuffle")
    /\ svg.rects = <<40, 90, 600>>
    /\ Len(_parse_svg_tiles(svg)) = 1
    /\ DOMAIN Wall = {"X1"}

\* C21: the tiles the classifier returns for a diagram have pairwise
\* distinct ids.
C21_TileIdsAreDistinct ==
    LET tiles == _parse_svg_tiles(svg)
    IN  \A i \in 1..Len(tiles), j \in 1..Len(tiles) :
            i # j => tiles[i].id # tiles[j].id

\* A shuffle has run the classifier on a diagram of two smallest tiles and
\* a small one.
C21_Witness ==
    /\ LastDid("shuffle")
    /\ svg.rects = <<85, 85, 170>>
    /\ Len(_parse_svg_tiles(svg)) = 3

\* C22: on a diagram that cannot be parsed, has no rect or has no rect of a
\* width in [40, 90], the classifier returns the empty sequence.
C22_NoCandidateNoTiles ==
    (~svg.ok \/ \A i \in 1..Len(svg.rects) : svg.rects[i] < 40 \/ svg.rects[i] > 90)
    => _parse_svg_tiles(svg) = <<>>

\* A shuffle has run the classifier on a diagram whose rects are all
\* outside [40, 90] and has found no tile.
C22_Witness ==
    /\ last = [op |-> "shuffle", code |-> 400, ok |-> FALSE,
               msg |-> "Not enough tiles available"]
    /\ svg.rects = <<30, 170, 600>>

C24_ShuffleWithoutEnoughTiles ==
    [][ ( /\ last'.op = "shuffle"
          /\ Wall # EmptyDict
          /\ Len(_parse_svg_tiles(svg)) < Cardinality(DOMAIN Wall)
          /\ shuffle_placement("8375") )
        => ( /\ last'.code = 400 /\ ~last'.ok
             /\ UNCHANGED <<placements, placement_snapshots>> ) ]_vars

\* A shuffle of two placed assets was refused on a diagram of one tile.
C24_Witness ==
    /\ last = [op |-> "shuffle", code |-> 400, ok |-> FALSE,
               msg |-> "Not enough tiles available"]
    /\ Len(_parse_svg_tiles(svg)) = 1
    /\ Cardinality(DOMAIN Wall) = 2

\* C25: after a restart of the server the undo stack is empty, whatever
\* was pushed before.
C25_RestartEmptiesUndoStack ==
    last.op = "restart" => Depth = 0

\* C28: history_status reports as history_count the number of snapshots
\* undo can pop, and can_undo exactly when there is one.
C28_StatusCountsUndoSnapshots ==
    (last.op = "history_status" /\ last.code = 200)
    => (last.msg = ToString(Depth) /\ last.ok = (Depth > 0))

\* C26: whatever the interleaving of clears and moves (and undos), the
\* occupancy a request's commit leaves is exactly the full mapping that
\* request computed from the occupancy it read: the last commit wins and
\* what was committed since its read is overwritten.
C26_LastWriteWins ==
    [][ \A t \in Threads :
          (req[t].pc = "save" /\ call_save_wall_state(t))
          => WallAfter = req[t].state_dict ]_vars

\* The commit of a clear has brought back a tile that a request committed
\* before it had emptied: the clear had read the wall before that commit.
C26_Witness ==
    /\ LastDid("clear_tile")
    /\ \E tile_id \in DOMAIN Wall : tile_id \notin DOMAIN prev.wall
    /\ Depth = 2

\* C27: two undo requests under way at the same time on a stack of depth
\* two or more never hold the same snapshot: each snapshot is handed to one
\* undo at most.
C27_SnapshotsAreSingleUse ==
    \A t1 \in Threads, t2 \in Threads :
        ( /\ t1 # t2
          /\ req[t1].op = "undo" /\ req[t1].pc = "delete"
          /\ req[t2].op = "undo" /\ req[t2].pc = "delete"
          /\ Depth >= 2 )
        => req[t1].snapshot_id # req[t2].snapshot_id

C30_SizeThresholds ==
    LET rects == svg.rects
        Candidates == {i \in 1..Len(rects) : 40 <= rects[i] /\ rects[i] <= 90}
        n == Cardinality(Candidates)
        RECURSIVE Sum(_)
        Sum(S) == IF S = {} THEN 0
                  ELSE LET i == CHOOSE x \in S : TRUE IN rects[i] + Sum(S \ {i})
        sum == Sum(Candidates)
        \* lo <= w < hi, without division
        Within(i, lo, hi) == lo * sum <= rects[i] * 85 * n /\ rects[i] * 85 * n < hi * sum
        Kept == {i \in 1..Len(rects) : Within(i, 60, 600)}
        SizeOf(i) == IF Within(i, 60, 128) THEN "xs"
                     ELSE IF Within(i, 128, 213) THEN "s"
                     ELSE IF Within(i, 213, 298) THEN "m"
                     ELSE IF Within(i, 298, 425) THEN "lg"
                     ELSE "xlg"
        tiles == _parse_svg_tiles(svg)
    IN  (svg.ok /\ Candidates # {})
        => /\ Len(tiles) = Cardinality(Kept)
           /\ \A k \in 1..Len(tiles) :
                 \E i \in Kept :
                    /\ Cardinality({j \in Kept : j <= i}) = k
                    /\ tiles[k].size = SizeOf(i)

\* A shuffle has run the classifier on a diagram with one candidate of
\* width 90 (scale 90/85): the rect of width 30 (w = 28.3) is excluded, the
\* candidate is X1 and the rect of width 600 (w = 566.7) is the extra-large
\* tile XL1, which now holds the asset.
C30_Witness ==
    /\ LastDid("shuffle")
    /\ svg.rects = <<30, 90, 600>>
    /\ _parse_svg_tiles(svg) = <<[id |-> "X1", size |-> "xs"], [id |-> "XL1", size |-> "xlg"]>>
    /\ DOMAIN Wall = {"XL1"}

\* C31: the k-th tile of a size class, in the order of the diagram's rects,
\* has the id made of the class prefix (X, S, M, L, XL) and k: the ordinals
\* of a class are 1..n without gaps, and rects that are no tiles take none.
C31_IdsFollowTraversalOrder ==
    LET tiles == _parse_svg_tiles(svg)
        Letter(size) == CASE size = "xs" -> "X" [] size = "s" -> "S" [] size = "m" -> "M"
                          [] size = "lg" -> "L" [] size = "xlg" -> "XL" [] OTHER -> "?"
    IN  \A k \in 1..Len(tiles) :
            tiles[k].id = Letter(tiles[k].size)
                            \o ToString(Cardinality({j \in 1..k : tiles[j].size = tiles[k].size}))

\* A shuffle has run the classifier on a diagram whose second rect is no
\* tile: the smallest tiles before and after it are X1 and X2, and X2 holds
\* the asset.
C31_Witness ==
    /\ LastDid("shuffle")
    /\ svg.rects = <<85, 30, 85>>
    /\ _parse_svg_tiles(svg) = <<[id |-> "X1", size |-> "xs"], [id |-> "X2", size |-> "xs"]>>
    /\ DOMAIN Wall = {"X2"}

(***************************************************************************)
(* What the read-only routes report about the occupancy.                   *)
(***************************************************************************)
\* GET /api/wall_state: the tiles of the assignments list, one entry for
\* each placed tile whose asset has a record.
get_wall_state_assignments ==
    LET wall_state == load_wall_state
    IN  {tile_id \in DOMAIN wall_state : wall_state[tile_id] \in assets}

\* GET /api/admin/tile_info: the tile is occupied and its asset record is
\* missing (the "orphaned reference" answer).
admin_tile_info_orphaned(tile_id) ==
    LET wall_state == load_wall_state
    IN  tile_id \in DOMAIN wall_state /\ wall_state[tile_id] \notin assets

\* C32: every asset id of the occupancy has an asset record, so the
\* wall-state query lists one assignment for each occupied tile and
\* tile_info gives the orphaned-reference answer for no tile.
C32_NoOrphanedAsset ==
    /\ \A tile_id \in DOMAIN Wall : Wall[tile_id] \in assets
    /\ get_wall_state_assignments = DOMAIN Wall
    /\ \A tile_id \in PairTileIds : ~admin_tile_info_orphaned(tile_id)

\* An undo has brought back a wall that holds both assets.
C32_Witness ==
    /\ LastDid("undo")
    /\ DOMAIN Wall = {"X1", "X2"}
    /\ Wall["X1"] # Wall["X2"]
    /\ prev.wall # Wall

\* C33: the legacy history never holds more than MAX_HISTORY_DEPTH (5)
\* snapshots; push_history_snapshot appends the state, and at full depth
\* drops the oldest snapshot and keeps the others in order;
\* pop_history_snapshot on an empty history returns (None, 0) and leaves it
\* empty.
C33_LegacyHistoryBounded ==
    [][ /\ Len(wall_state_history_json') <= 5
        /\ \A current_state \in MappingsOn(PairTileIds, OneAssetId) :
              ( /\ last'.op = "push_history_snapshot"
                /\ push_history_snapshot(current_state) )
              => /\ wall_state_history_json' =
                       IF Len(wall_state_history_json) < 5
                       THEN Append(wall_state_history_json, current_state)
                       ELSE Append(Tail(wall_state_history_json), current_state)
                 /\ last'.code = Len(wall_state_history_json')
        /\ ( /\ last'.op = "pop_history_snapshot"
             /\ wall_state_history_json = <<>>
             /\ pop_history_snapshot )
           => /\ wall_state_history_json' = <<>>
              /\ last'.code = 0 /\ ~last'.ok ]_vars

\* A push on a history of five snapshots has dropped the oldest one: the
\* history still has five snapshots and ends with the state pushed.
C33_Witness ==
    /\ last.op = "push_history_snapshot"
    /\ prev.depth = 5
    /\ Len(wall_state_history_json) = 5
    /\ wall_state_history_json[5] # wall_state_history_json[4]
    /\ wall_state_history_json[1] = EmptyDict

\* C34: for every diagram the repair script's parse_svg_tiles returns the
\* ids of the tiles the server's _parse_svg_tiles returns, in the same
\* order (so it is empty exactly when the server's is).
C34_RepairClassifierAgrees ==
    LET server_tiles == _parse_svg_tiles(svg)
    IN  parse_svg_tiles(svg) = [i \in 1..Len(server_tiles) |-> server_tiles[i].id]

\* The script has run on a diagram with two scale candidates and has
\* inserted the tiles X1 and M1 that both classifiers find in it.
C34_Witness ==
    /\ last.op = "repair_tiles_table" /\ last.ok /\ last.code = 2
    /\ svg.rects = <<40, 90, 170>>
    /\ parse_svg_tiles(svg) = <<"X1", "M1">>
    /\ {row.tile_id : row \in tiles_table} = {"X1", "M1"}

\* C35: a run of repair_tiles_table leaves every row the table had as it
\* was, a run that finds tiles in the diagram inserts exactly the diagram's
\* tile ids the table lacked, each without artwork, and after it the table
\* lacks none, so that a second run inserts nothing.
C35_RepairPreservesAssignments ==
    [][ ( /\ last'.op = "repair_tiles_table"
          /\ repair_tiles_table )
        => LET server_tiles == _parse_svg_tiles(svg)
               diagram_ids == {server_tiles[i].id : i \in 1..Len(server_tiles)}
               had == {row.tile_id : row \in tiles_table}
           IN  /\ tiles_table \subseteq tiles_table'
               /\ tiles_table' \ tiles_table =
                      {[tile_id |-> tile_id, asset_id |-> NULL] : tile_id \in diagram_ids \ had}
               /\ diagram_ids \subseteq had => tiles_table' = tiles_table
               /\ last'.code = Cardinality(diagram_ids \ had) ]_vars

\* The script has inserted the missing tile X2 next to the rows of X1 and
\* S1, which keep their artwork.
C35_Witness ==
    /\ last.op = "repair_tiles_table" /\ last.ok /\ last.code = 1
    /\ svg.rects = <<85, 85, 170>>
    /\ tiles_table = {[tile_id |-> "X1", asset_id |-> "a1"],
                      [tile_id |-> "X2", asset_id |-> NULL],
                      [tile_id |-> "S1", asset_id |-> "a1"]}

====
